---- MODULE Spec2Model ----
(***************************************************************************)
(* cavempv: a serial button panel drives an mpv playlist of fragments.     *)
(* The module models src/main.rs: the dispatch loop (serial read raced     *)
(* against the idle timeout, forwarding into a capacity-1 channel), the    *)
(* transition consumer (fadeout selection, cursor move, intro/static       *)
(* loading) and the LinkedList cursor it navigates with.                   *)
(*                                                                         *)
(*                                                                         *)
(* Option<T> values are sequences: None is <<>>, Some(x) is <<x>>.         *)
(* Times are whole seconds.                                                *)
(*                                                                         *)
(* Spec and SpecSelect are the dispatch loop and the consumer alone, with  *)
(* engine and serial calls that succeed.  SpecCodec is LineCodec under the *)
(* framed reader, SpecEncode its encoder.  SpecSys adds the event watcher  *)
(* and the shared serial lock, SpecFault adds failing engine and serial    *)
(* calls; SpecSysLive and SpecFaultLive are these under fair scheduling.   *)
(***************************************************************************)
EXTENDS Integers, Sequences, FiniteSets, TLC

VARIABLES
    playlist,    \* the LinkedList<Fragment> built from s.playlist
    cursor,      \* the linked-list Cursor: [index, current]
    chan,        \* messages buffered in the mpsc channel
    disp_pc,     \* dispatch loop position: "lock", "locking", "wait" (holding
                 \* the lock, in timeout(.., next())), "send_line", "send_sleep",
                 \* "exit" (main returned Err)
    line,        \* the Command decoded in the Ok(Some(Ok(line))) arm
    con_pc,      \* consumer position: "start", "recv", "fadeout", "move", "load",
                 \* "panicked"
    cmd,         \* the Command the consumer dequeued
    prev,        \* the cursor as it was when cmd was dequeued
    replaced,    \* the transition's replaced flag
    calls,       \* engine calls issued since the last dequeue, in order
    telemetry,   \* loops and playback_time, alive until the fadeout block ends
    sent,        \* every completed tx.send, in order: [cmd, idle], idle marking
                 \* the send of the timeout arm
    processed,   \* every Command whose transition finished, in order
    recording,   \* whether this run keeps the histories sent and processed
    closed,      \* the channel's receiver has been dropped
    mutex,       \* the Mutex around the framed port: [holder, waitq]
    w_pc,        \* event watcher position: "off", "event", "lock", "locking",
                 \* "send", "panicked"
    w_sig,       \* the ButtonState the watcher is about to send
    notified,    \* the signals of the filename changes received, in order
    written,     \* the signals written to the panel, in order
    ioFault,     \* a serial read or write has failed
    stream,      \* SpecCodec: the bytes the panel sends
    overflow_checks, \* SpecCodec: the build checks integer overflow (debug)
    ends,        \* SpecCodec: after the last byte reads return 0 ("eof") or
                 \* never return ("silent")
    fr,          \* SpecCodec: the state of a framed reader per way of delivery
    lastDecode,  \* SpecCodec: the latest decode call: [src, res]
    wbuf,        \* SpecCodec: the write buffer of the framed port
    lastEncode   \* SpecCodec: the latest encode call: [item, dst]

watchVars == <<w_pc, w_sig, notified, written>>
codecVars == <<stream, overflow_checks, ends, fr, lastDecode, wbuf, lastEncode>>

vars == <<playlist, cursor, chan, disp_pc, line, con_pc, cmd, prev, replaced,
          calls, telemetry, sent, processed, recording, closed, mutex, ioFault,
          watchVars, codecVars>>

-----------------------------------------------------------------------------
(* Bounds *)

MaxFrags == 2
MaxCmds == 3
MaxFadeouts == 2

-----------------------------------------------------------------------------
(* Option *)

None == <<>>
Some(x) == <<x>>
IsSome(o) == o # None
Unwrap(o) == o[1]
UnwrapOr(o, d) == IF o = None THEN d ELSE o[1]

-----------------------------------------------------------------------------
(* Command, settings *)

Command == {"Next", "Prev", "Sleep"}

ChannelCapacity == 1

InfiniteLoops == -1

\* std::f32::MAX: above every playback time and every threshold modelled
F32Max == 1000000

Fadeout(before, video) == [before |-> before, video |-> video]

Fragment(intro, static, fadeout) ==
    [intro |-> intro, static_ |-> static, fadeout |-> fadeout]

-----------------------------------------------------------------------------
(* Configurations: the playlists Settings::new() may deliver (non-empty) *)

StaticClips == <<"loop0.mp4", "loop1.mp4", "loop2.mp4", "loop3.mp4">>
IntroClips == <<"intro0.mp4", "intro1.mp4", "intro2.mp4", "intro3.mp4">>

OutroClips == <<"A", "B", "C", "D">>

\* the values of a fadeout entry's `before`
Thresholds == {None, Some(5), Some(15)}

\* the fadeout list whose entries have the thresholds bs, in that order
FadeoutList(bs) == [i \in 1..Len(bs) |-> Fadeout(bs[i], OutroClips[i])]

\* fragments for position i of a playlist, their `fadeout` drawn from lists
FragmentsAt(i, lists) ==
    { Fragment(intro, StaticClips[i], fadeout) :
        intro \in {None, Some(IntroClips[i])}, fadeout \in lists }

PlaylistsOver(n, lists) ==
    { p \in [1..n -> UNION {FragmentsAt(i, lists) : i \in 1..n}] :
        \A i \in 1..n : p[i] \in FragmentsAt(i, lists) }

\* Spec: up to MaxFrags fragments, each without fadeout or with two timed outros
Playlists ==
    UNION { PlaylistsOver(n, {None, Some(FadeoutList(<<Some(5), Some(15)>>))}) :
              n \in 1..MaxFrags }

\* SpecSelect: one fragment, every fadeout list of up to MaxFadeouts entries
AllFadeoutLists ==
    {None} \cup { Some(FadeoutList(bs)) :
                    bs \in UNION { [1..k -> Thresholds] : k \in 0..MaxFadeouts } }

SelectPlaylists == PlaylistsOver(1, AllFadeoutLists)

\* playback-time and remaining-file-loops as the engine may report them:
\* Some(v) is text that parses to v, None is text that does not parse
TimeReplies == {None, Some(0), Some(5), Some(10), Some(15), Some(20)}
LoopReplies == {None, Some(InfiniteLoops), Some(0), Some(2)}

-----------------------------------------------------------------------------
(* std::collections::linked_list::Cursor over a list of n nodes.          *)
(* current is the node's position (0-based), None on the ghost element.   *)

cursor_front(n) ==
    [index |-> 0, current |-> IF n = 0 THEN None ELSE Some(0)]

move_next(c, n) ==
    IF c.current = None
    THEN [index |-> 0, current |-> IF n = 0 THEN None ELSE Some(0)]
    ELSE [index |-> c.index + 1,
          current |-> IF Unwrap(c.current) + 1 < n
                      THEN Some(Unwrap(c.current) + 1) ELSE None]

index(c) == IF c.current = None THEN None ELSE Some(c.index)

\* cursor.current(): the fragment under the cursor, None on the ghost
current(c, pl) ==
    IF c.current = None THEN None ELSE Some(pl[Unwrap(c.current) + 1])

-----------------------------------------------------------------------------
(* Engine calls (PlaylistAdder and the Mpv methods the consumer uses) *)

ReplaceCall(path, inf_loop) == [op |-> "replace", arg |-> path, inf_loop |-> inf_loop]
QueueCall(path, inf_loop) == [op |-> "queue", arg |-> path, inf_loop |-> inf_loop]
ClearCall == [op |-> "playlist_clear", arg |-> "", inf_loop |-> FALSE]
GetCall(name) == [op |-> "get_property", arg |-> name, inf_loop |-> FALSE]

\* text.trim().parse().unwrap_or(fallback) on an engine reply
ParseOr(reply, fallback) == UnwrapOr(reply, fallback)

-----------------------------------------------------------------------------
(* Fadeout selection *)

\* Iterator::find over a Vec, from element i on: the first element whose
\* position is in hits (the positions where the closure returns true), if any
RECURSIVE FindFrom(_, _, _)
FindFrom(seq, hits, i) ==
    IF i > Len(seq) THEN None
    ELSE IF i \in hits THEN Some(seq[i])
    ELSE FindFrom(seq, hits, i + 1)

Find(seq, hits) == FindFrom(seq, hits, 1)

SelectInfinite(fadeouts) ==
    Find(fadeouts, {i \in 1..Len(fadeouts) : fadeouts[i].before = None})

\* variant: the threshold must lie strictly after the playback time
SelectTimedStrict(playback_time, fadeouts) ==
    Find(fadeouts, {i \in 1..Len(fadeouts) :
                      playback_time < UnwrapOr(fadeouts[i].before, F32Max)})

SelectTimed(playback_time, fadeouts) ==
    Find(fadeouts, {i \in 1..Len(fadeouts) :
                      playback_time <= UnwrapOr(fadeouts[i].before, F32Max)})

\* variant: the loop count is not looked at
SelectFadeoutTimedOnly(loops, playback_time, fadeouts) ==
    SelectTimed(playback_time, fadeouts)

SelectFadeout(loops, playback_time, fadeouts) ==
    IF loops = InfiniteLoops
    THEN SelectInfinite(fadeouts)
    ELSE SelectTimed(playback_time, fadeouts)

-----------------------------------------------------------------------------
(* One transition, as operators on t = [replaced, calls] *)

\* variant: the outro is loaded without clearing the queue
FadeoutBlockNoClear(t, fadeouts, loopReply, timeReply) ==
    LET maybe_fadeout == SelectFadeout(ParseOr(loopReply, 0), ParseOr(timeReply, 0),
                                       fadeouts)
        queried == t.calls \o <<GetCall("remaining-file-loops"),
                                GetCall("playback-time")>>
    IN  IF IsSome(maybe_fadeout)
        THEN [replaced |-> TRUE,
              calls |-> Append(queried, ReplaceCall(Unwrap(maybe_fadeout).video, FALSE))]
        ELSE [replaced |-> t.replaced, calls |-> queried]

\* the fadeout block, entered when the current fragment has a fadeout list
FadeoutBlock(t, fadeouts, loopReply, timeReply) ==
    LET loops == ParseOr(loopReply, 0)
        playback_time == ParseOr(timeReply, 0)
        maybe_fadeout == SelectFadeout(loops, playback_time, fadeouts)
        queried == t.calls \o <<GetCall("remaining-file-loops"),
                                GetCall("playback-time")>>
    IN  IF IsSome(maybe_fadeout)
        THEN [replaced |-> TRUE,
              calls |-> queried \o
                        <<ReplaceCall(Unwrap(maybe_fadeout).video, FALSE), ClearCall>>]
        ELSE [replaced |-> t.replaced, calls |-> queried]

\* variant: a fragment without fadeout list is treated as one with an empty list
FadeoutStepAlways(t, frag, loopReply, timeReply) ==
    FadeoutBlock(t, UnwrapOr(frag.fadeout, <<>>), loopReply, timeReply)

\* the `if let Some(fadeouts) = ...fadeout` around the block
FadeoutStep(t, frag, loopReply, timeReply) ==
    IF IsSome(frag.fadeout)
    THEN FadeoutBlock(t, Unwrap(frag.fadeout), loopReply, timeReply)
    ELSE t

\* variant: a single move_next, the ghost element is not skipped
CmdNextNoWrap(c, n) == move_next(c, n)

\* variant: at the last fragment the cursor stays where it is
CmdNextClamp(c, n) ==
    IF index(move_next(c, n)) = None THEN c ELSE move_next(c, n)

CmdNext(c, n) ==
    LET c1 == move_next(c, n)
    IN  IF index(c1) = None THEN move_next(c1, n) ELSE c1

\* variant: Prev steps back one fragment, stopping at the first
CmdPrevRetreat(c, n) ==
    IF c.current = None \/ c.index = 0
    THEN c
    ELSE [index |-> c.index - 1, current |-> Some(Unwrap(c.current) - 1)]

CmdPrev(c, n) == c

\* variant: Sleep leaves the cursor where it is
CmdSleepStays(c, n) == c

CmdSleep(c, n) == cursor_front(n)

MoveCursor(command, c, n) ==
    CASE command = "Next" -> CmdNext(c, n)
      [] command = "Prev" -> CmdPrev(c, n)
      [] command = "Sleep" -> CmdSleep(c, n)

\* variant: the intro replaces whatever was loaded before
LoadIntroReplaces(t, frag) ==
    IF IsSome(frag.intro)
    THEN [replaced |-> TRUE,
          calls |-> t.calls \o <<ReplaceCall(Unwrap(frag.intro), FALSE), ClearCall>>]
    ELSE t

LoadIntro(t, frag) ==
    IF IsSome(frag.intro)
    THEN IF t.replaced
         THEN [replaced |-> TRUE,
               calls |-> Append(t.calls, QueueCall(Unwrap(frag.intro), FALSE))]
         ELSE [replaced |-> TRUE,
               calls |-> t.calls \o
                         <<ReplaceCall(Unwrap(frag.intro), FALSE), ClearCall>>]
    ELSE t

\* variant: the static clip always replaces
LoadStaticReplaces(t, frag) ==
    [replaced |-> t.replaced,
     calls |-> t.calls \o <<ReplaceCall(frag.static_, TRUE), ClearCall>>]

LoadStatic(t, frag) ==
    IF t.replaced
    THEN [replaced |-> t.replaced,
          calls |-> Append(t.calls, QueueCall(frag.static_, TRUE))]
    ELSE [replaced |-> t.replaced,
          calls |-> t.calls \o <<ReplaceCall(frag.static_, TRUE), ClearCall>>]

-----------------------------------------------------------------------------
(* tokio::sync::mpsc::channel(1) *)

\* variant: a channel without a capacity limit
ChanUnbounded(ch) == TRUE

ChanHasRoom(ch) == Len(ch) < ChannelCapacity

ChanSend(ch, m) == Append(ch, m)

\* variant: recv hands out the oldest message without removing it
ChanPeek(ch) == [msg |-> Head(ch), rest |-> ch]

ChanRecv(ch) == [msg |-> Head(ch), rest |-> Tail(ch)]

\* variant: a send does not notice that the receiver is gone
TrySendIgnoresClose(ch, isClosed) == IF ChanHasRoom(ch) THEN "ok" ELSE "full"

\* tx.send(m): Err once the receiver is dropped, else completes when there is
\* room, else waits
TrySend(ch, isClosed) ==
    IF isClosed THEN "closed"
    ELSE IF ChanHasRoom(ch) THEN "ok" ELSE "full"

-----------------------------------------------------------------------------
(* tokio::sync::Mutex around the framed port: waiters are served in order *)

MutexNew == [holder |-> None, waitq |-> <<>>]

\* variant: every lock() is granted at once
MutexLockUnchecked(m, task) == [holder |-> Some(task), waitq |-> m.waitq]

\* lock(): granted at once when nobody holds the mutex, else queued
MutexLock(m, task) ==
    IF m.holder = None
    THEN [holder |-> Some(task), waitq |-> m.waitq]
    ELSE [holder |-> m.holder, waitq |-> Append(m.waitq, task)]

\* variant: the guard is dropped without waking the next waiter
MutexUnlockNoHandoff(m) == [holder |-> None, waitq |-> m.waitq]

\* drop of the MutexGuard: the mutex passes to the longest waiter, if any
MutexUnlock(m) ==
    IF m.waitq = <<>>
    THEN [holder |-> None, waitq |-> <<>>]
    ELSE [holder |-> Some(Head(m.waitq)), waitq |-> Tail(m.waitq)]

\* the lock() of task has returned its guard
MutexGranted(m, task) == m.holder = Some(task)

-----------------------------------------------------------------------------
(* Initial state: the tasks are spawned, nothing has run yet *)

\* the parts of the state a specification does not use
NoWatcher ==
    /\ w_pc = "off"
    /\ w_sig = None
    /\ notified = <<>>
    /\ written = <<>>

NoCodec ==
    /\ stream = <<>>
    /\ overflow_checks = FALSE
    /\ ends = "silent"
    /\ fr = <<>>
    /\ lastDecode = None
    /\ wbuf = <<>>
    /\ lastEncode = None

\* the dispatch loop and the consumer before their first step
ProgramStart ==
    /\ cursor = cursor_front(Len(playlist))
    /\ chan = <<>>
    /\ disp_pc = "lock"
    /\ line = None
    /\ con_pc = "start"
    /\ cmd = None
    /\ prev = cursor_front(Len(playlist))
    /\ replaced = FALSE
    /\ calls = <<>>
    /\ telemetry = None
    /\ sent = <<>>
    /\ processed = <<>>
    /\ closed = FALSE
    /\ mutex = MutexNew
    /\ ioFault = FALSE

Init ==
    /\ playlist \in Playlists
    /\ recording = TRUE
    /\ ProgramStart
    /\ NoWatcher
    /\ NoCodec

-----------------------------------------------------------------------------
(* Transition consumer task *)

conVars == <<cursor, con_pc, cmd, prev, replaced, calls, telemetry, processed>>
dispVars == <<disp_pc, line, sent>>

\* what neither the dispatch loop nor the consumer writes
restVars == <<playlist, recording, ioFault, watchVars, codecVars>>

\* append x to history h in a run that keeps histories
Record(h, x) == IF recording THEN Append(h, x) ELSE h

\* mpv.queue(&cursor.current().unwrap().static_, true) before the loop
ConsumerStart ==
    /\ con_pc = "start"
    /\ calls' = <<QueueCall(Unwrap(current(cursor, playlist)).static_, TRUE)>>
    /\ con_pc' = "recv"
    /\ UNCHANGED <<cursor, chan, cmd, prev, replaced, telemetry, processed>>
    /\ UNCHANGED <<dispVars, closed, mutex, restVars>>

\* rx.recv().await yields a Command; let mut replaced = false
ConsumerRecv ==
    /\ con_pc = "recv"
    /\ chan # <<>>
    /\ cmd' = Some(ChanRecv(chan).msg)
    /\ chan' = ChanRecv(chan).rest
    /\ replaced' = FALSE
    /\ calls' = <<>>
    /\ telemetry' = None
    /\ prev' = cursor
    /\ con_pc' = "fadeout"
    /\ UNCHANGED <<cursor, processed>>
    /\ UNCHANGED <<dispVars, closed, mutex, restVars>>

\* if let Some(fadeouts) = &cursor.current().unwrap().fadeout { ... }
ConsumerFadeout ==
    /\ con_pc = "fadeout"
    /\ LET frag == Unwrap(current(cursor, playlist))
       IN  \E loopReply \in LoopReplies, timeReply \in TimeReplies :
             LET t == FadeoutStep([replaced |-> replaced, calls |-> calls],
                                  frag, loopReply, timeReply)
             IN  /\ replaced' = t.replaced
                 /\ calls' = t.calls
                 /\ telemetry' = IF IsSome(frag.fadeout)
                                  THEN Some([loops |-> ParseOr(loopReply, 0),
                                             playback_time |-> ParseOr(timeReply, 0)])
                                  ELSE None
    /\ con_pc' = "move"
    /\ UNCHANGED <<cursor, chan, cmd, prev, processed>>
    /\ UNCHANGED <<dispVars, closed, mutex, restVars>>

\* match cmd { Next => ..., Prev => ..., Sleep => ... }
ConsumerMove ==
    /\ con_pc = "move"
    /\ cursor' = MoveCursor(Unwrap(cmd), cursor, Len(playlist))
    /\ telemetry' = None
    /\ con_pc' = "load"
    /\ UNCHANGED <<chan, cmd, prev, replaced, calls, processed>>
    /\ UNCHANGED <<dispVars, closed, mutex, restVars>>

\* intro and static loading at the new position; back to rx.recv()
ConsumerLoad ==
    /\ con_pc = "load"
    /\ LET frag == Unwrap(current(cursor, playlist))
           t == LoadStatic(LoadIntro([replaced |-> replaced, calls |-> calls], frag),
                           frag)
       IN  /\ replaced' = t.replaced
           /\ calls' = t.calls
    /\ processed' = Record(processed, Unwrap(cmd))
    /\ con_pc' = "recv"
    /\ UNCHANGED <<cursor, chan, cmd, prev, telemetry>>
    /\ UNCHANGED <<dispVars, closed, mutex, restVars>>

-----------------------------------------------------------------------------
(* Dispatch loop (main task) *)

\* the Command of the timeout arm: tx.send(Command::Sleep)
IdleCommand == "Sleep"

\* Commands the loop has taken up so far (sent, or waiting in tx.send)
Produced == Len(sent) + (IF disp_pc = "wait" THEN 0 ELSE 1)

\* the histories are kept for at most MaxCmds Commands
WithinBound == recording => Produced < MaxCmds

\* reader.lock().await: the guard is taken, or the loop waits for it
DispatchLock ==
    /\ disp_pc = "lock"
    /\ mutex' = MutexLock(mutex, "dispatch")
    /\ disp_pc' = IF MutexGranted(mutex', "dispatch") THEN "wait" ELSE "locking"
    /\ UNCHANGED <<chan, line, sent, closed>>
    /\ UNCHANGED <<conVars, restVars>>

\* reader.lock().await returns once the mutex has been passed on
DispatchGranted ==
    /\ disp_pc = "locking"
    /\ MutexGranted(mutex, "dispatch")
    /\ disp_pc' = "wait"
    /\ UNCHANGED <<chan, line, sent, closed, mutex>>
    /\ UNCHANGED <<conVars, restVars>>

\* Ok(Some(Ok(line))): the framed reader yields a decoded Command
DispatchDecoded ==
    /\ disp_pc = "wait"
    /\ WithinBound
    /\ \E c \in Command : line' = Some(c)
    /\ disp_pc' = "send_line"
    /\ UNCHANGED <<chan, sent, closed, mutex>>
    /\ UNCHANGED <<conVars, restVars>>

\* Err(_): sleep_timeout_sec elapsed before the reader yielded anything
DispatchTimeout ==
    /\ disp_pc = "wait"
    /\ WithinBound
    /\ disp_pc' = "send_sleep"
    /\ UNCHANGED <<chan, line, sent, closed, mutex>>
    /\ UNCHANGED <<conVars, restVars>>

\* `_ => {}` (the stream yields None): the iteration ends, the guard is dropped
DispatchNoCommand ==
    /\ disp_pc = "wait"
    /\ mutex' = MutexUnlock(mutex)
    /\ disp_pc' = "lock"
    /\ UNCHANGED <<chan, line, sent, closed>>
    /\ UNCHANGED <<conVars, restVars>>

\* tx.send(line).await completes once the channel has room; the iteration
\* ends and the guard is dropped
DispatchSendLine ==
    /\ disp_pc = "send_line"
    /\ TrySend(chan, closed) = "ok"
    /\ chan' = ChanSend(chan, Unwrap(line))
    /\ sent' = Record(sent, [cmd |-> Unwrap(line), idle |-> FALSE])
    /\ line' = None
    /\ mutex' = MutexUnlock(mutex)
    /\ disp_pc' = "lock"
    /\ UNCHANGED closed
    /\ UNCHANGED <<conVars, restVars>>

\* tx.send(Command::Sleep).await completes once the channel has room; the
\* iteration ends and the guard is dropped
DispatchSendSleep ==
    /\ disp_pc = "send_sleep"
    /\ TrySend(chan, closed) = "ok"
    /\ chan' = ChanSend(chan, IdleCommand)
    /\ sent' = Record(sent, [cmd |-> IdleCommand, idle |-> TRUE])
    /\ mutex' = MutexUnlock(mutex)
    /\ disp_pc' = "lock"
    /\ UNCHANGED <<line, closed>>
    /\ UNCHANGED <<conVars, restVars>>

-----------------------------------------------------------------------------
(* Derived state *)

N == Len(playlist)

\* the consumer holds a dequeued Command whose transition has not finished
InTransition == con_pc \in {"fadeout", "move", "load"}

\* a dequeued Command's cursor move has been made
Moved == cmd # None /\ con_pc \in {"load", "recv"}

\* position (0-based) of a cursor that is on a fragment
Pos(c) == Unwrap(c.current)

Max(a, b) == IF a >= b THEN a ELSE b

\* the Commands of the completed sends, in order
SentCmds == [i \in 1..Len(sent) |-> sent[i].cmd]

\* the Command in transition, if any
InFlight == IF InTransition THEN <<Unwrap(cmd)>> ELSE <<>>

\* Commands sent whose transition has not finished
Unfinished == Len(sent) - Len(processed)

\* the fragment the cursor was on when the Command was dequeued
PrevFragment == Unwrap(current(prev, playlist))

\* the fadeout block has just run and read the telemetry
AfterFadeoutBlock == con_pc = "move" /\ telemetry # None

Queried == <<GetCall("remaining-file-loops"), GetCall("playback-time")>>

Least(S) == CHOOSE k \in S : \A j \in S : k <= j

\* what the fadeout block has issued when the entries of fl at the positions
\* in matching are the ones that qualify
IssuedForFirstOf(matching, fl) ==
    IF matching = {}
    THEN calls = Queried /\ ~replaced
    ELSE /\ calls = Queried \o
                    <<[op |-> "replace", arg |-> fl[Least(matching)].video,
                       inf_loop |-> FALSE],
                      [op |-> "playlist_clear", arg |-> "", inf_loop |-> FALSE]>>
         /\ replaced

IsLoad(c) == c.op \in {"replace", "queue"}

\* the load calls of the transition so far
Loads == SelectSeq(calls, IsLoad)

IsPlaybackCall(c) == c.op # "get_property"

\* the calls of sequence cs that act on playback (loads and clears), the
\* telemetry reads left out
PlaybackCalls(cs) == SelectSeq(cs, IsPlaybackCall)

\* the consumer takes the loading step that ends a transition
LoadStepTaken == con_pc = "load" /\ con_pc' = "recv"

-----------------------------------------------------------------------------

Next ==
    \/ ConsumerStart
    \/ ConsumerRecv
    \/ ConsumerFadeout
    \/ ConsumerMove
    \/ ConsumerLoad
    \/ DispatchLock
    \/ DispatchDecoded
    \/ DispatchTimeout
    \/ DispatchNoCommand
    \/ DispatchSendLine
    \/ DispatchSendSleep

Spec == Init /\ [][Next]_vars

\* the same program on a one-fragment playlist with an arbitrary fadeout list
InitSelect ==
    /\ playlist \in SelectPlaylists
    /\ recording = TRUE
    /\ ProgramStart
    /\ NoWatcher
    /\ NoCodec

SpecSelect == InitSelect /\ [][Next]_vars

-----------------------------------------------------------------------------
(* Properties *)

\* C1: wherever the consumer reads the current fragment or waits to dequeue
\* (startup, rx.recv, the fadeout test, intro/static loading) the cursor is on
\* a fragment of the playlist, never on the ghost element, and its index is
\* that fragment's position; so current().unwrap() does not fail.
C1_CursorValid ==
    con_pc \in {"start", "recv", "fadeout", "load"} =>
        /\ current(cursor, playlist) # None
        /\ Pos(cursor) \in 0..(N - 1)
        /\ index(cursor) = Some(Pos(cursor))

\* a Next from the last of several fragments has wrapped to the first
C1_Witness ==
    /\ con_pc = "load" /\ cmd = Some("Next")
    /\ N >= 2 /\ Pos(prev) = N - 1
    /\ cursor.current = Some(0)

\* C2: after the move for a Next dequeued with the cursor at index i of N
\* fragments, the cursor is at index (i + 1) mod N.
C2_NextAdvances ==
    (Moved /\ cmd = Some("Next")) =>
        /\ cursor.current = Some((Pos(prev) + 1) % N)
        /\ index(cursor) = Some((Pos(prev) + 1) % N)

\* a finished Next that wrapped from the last index to 0
C2_Witness ==
    /\ con_pc = "recv" /\ cmd = Some("Next")
    /\ N >= 2 /\ Pos(prev) = N - 1
    /\ index(cursor) = Some(0)

\* C3 as claimed: after the move for a Prev dequeued at index i the cursor is
\* at index max(i - 1, 0).
C3_PrevRetreats ==
    (Moved /\ cmd = Some("Prev")) => cursor.current = Some(Max(Pos(prev) - 1, 0))

\* C3 as amended: a Prev leaves the cursor at the index it was dequeued at.
C3_PrevStays ==
    (Moved /\ cmd = Some("Prev")) => cursor = prev

\* a finished Prev dequeued at index 1 has left the cursor at index 1
C3_Witness ==
    /\ con_pc = "recv" /\ cmd = Some("Prev")
    /\ prev.current = Some(1)
    /\ cursor.current = Some(1)


\* C4: the timeout arm takes up exactly one Command, a Sleep: entering it sends
\* nothing yet, and it is left only by one completed send that appends one
\* Sleep to the channel and ends the loop iteration; and the move made for a
\* dequeued Sleep puts the cursor on index 0 from any position.
C4_IdleSleep ==
    [][ /\ (disp_pc = "wait" /\ disp_pc' = "send_sleep") =>
              (chan' = chan /\ sent' = sent)
        /\ (disp_pc = "send_sleep" /\ disp_pc' # "send_sleep") =>
              /\ disp_pc' = "lock"
              /\ chan' = Append(chan, "Sleep")
              /\ sent' = Append(sent, [cmd |-> "Sleep", idle |-> TRUE])
        /\ (con_pc = "move" /\ cmd = Some("Sleep") /\ con_pc' = "load") =>
              /\ cursor'.current = Some(0)
              /\ index(cursor') = Some(0) ]_vars

\* the Sleep of a timeout was dequeued at index 1 and its transition finished
C4_Witness ==
    /\ con_pc = "recv" /\ cmd = Some("Sleep")
    /\ Len(processed) >= 1 /\ Len(sent) >= Len(processed)
    /\ sent[Len(processed)].idle
    /\ prev.current = Some(1)
    /\ cursor.current = Some(0)

\* C5 as claimed: at most one Command has been sent without its transition
\* having finished.
C5_OnePending == Unfinished <= 1

\* C5 as amended: at most one Command waits in the channel, and at most two
\* have been sent without their transition having finished (the one in
\* transition and the one buffered).
C5_Backpressure ==
    /\ Len(chan) <= 1
    /\ Unfinished = Len(chan) + Len(InFlight)
    /\ Unfinished <= 2

\* a third Command waits in tx.send while one is buffered and one in transition
C5_Witness ==
    /\ disp_pc \in {"send_line", "send_sleep"}
    /\ Len(chan) = 1
    /\ con_pc = "move"
    /\ Unfinished = 2

\* C6: the Commands sent are, in order and each once, the ones whose
\* transition finished, then the one in transition, then the buffered ones.
C6_InOrder == SentCmds = processed \o InFlight \o chan

\* three different Commands, a synthesized Sleep among them, went through
C6_Witness ==
    /\ processed = <<"Next", "Sleep", "Prev">>
    /\ sent[2].idle
    /\ con_pc = "recv"

\* C7: with remaining_loops = -1 the fadeout block replaces with the first
\* entry, in list order, whose `before` is absent, whatever the playback time
\* and whatever timed entries precede it; without such an entry it issues no
\* replace.
C7_InfiniteLoops ==
    (AfterFadeoutBlock /\ Unwrap(telemetry).loops = -1) =>
        LET fl == Unwrap(PrevFragment.fadeout)
        IN  IssuedForFirstOf({i \in 1..Len(fl) : fl[i].before = None}, fl)

\* loops = -1 at playback time 0: the catch-all B is taken, not the timed A
C7_Witness ==
    /\ AfterFadeoutBlock
    /\ Unwrap(telemetry) = [loops |-> -1, playback_time |-> 0]
    /\ PrevFragment.fadeout = Some(<<Fadeout(Some(5), "A"), Fadeout(None, "B")>>)
    /\ calls[3] = ReplaceCall("B", FALSE)

\* C8: with remaining_loops other than -1 the fadeout block replaces with the
\* first entry, in list order, whose `before` is absent or at least the
\* playback time; without such an entry it issues no replace.
C8_FiniteLoops ==
    (AfterFadeoutBlock /\ Unwrap(telemetry).loops # -1) =>
        LET fl == Unwrap(PrevFragment.fadeout)
        IN  IssuedForFirstOf({i \in 1..Len(fl) :
                                \/ fl[i].before = None
                                \/ Unwrap(fl[i].before) >= Unwrap(telemetry).playback_time},
                             fl)

\* loops = 2, playback time 10, list [{5, A}, {15, B}]: B is taken
C8_Witness ==
    /\ AfterFadeoutBlock
    /\ Unwrap(telemetry) = [loops |-> 2, playback_time |-> 10]
    /\ PrevFragment.fadeout = Some(<<Fadeout(Some(5), "A"), Fadeout(Some(15), "B")>>)
    /\ calls[3] = ReplaceCall("B", FALSE)

\* C9: when the fragment under the cursor at the dequeue has no fadeout list,
\* no engine call has been issued by the time the cursor is moved.
C9_NoFadeoutNoCall ==
    (con_pc \in {"fadeout", "move"} /\ PrevFragment.fadeout = None) =>
        (calls = <<>> /\ ~replaced /\ telemetry = None)

\* a Next about to move the cursor off a fragment without fadeout list, in a
\* playlist that also holds a fragment with one
C9_Witness ==
    /\ con_pc = "move" /\ cmd = Some("Next")
    /\ PrevFragment.fadeout = None
    /\ \E i \in 1..N : playlist[i].fadeout # None
    /\ calls = <<>>

\* C10: among the load calls of a transition only the first is a replace,
\* every later one is a queue; a finished transition has made its replace.
C10_OneReplace ==
    cmd # None =>
        /\ \A i \in 1..Len(Loads) :
              Loads[i].op = (IF i = 1 THEN "replace" ELSE "queue")
        /\ (con_pc = "recv" => Len(Loads) >= 1)

\* a finished transition: outro replaced, then intro and static queued
C10_Witness ==
    /\ con_pc = "recv" /\ cmd # None
    /\ Len(Loads) = 3
    /\ Loads[1].arg \in {"A", "B"}

\* C11: a transition that reaches the loading step without an outro (replaced
\* is still false, nothing but telemetry reads issued) ends with the playback
\* calls replace(intro, false), playlist_clear, queue(static, true) when the
\* fragment at the new position has an intro, else replace(static, true),
\* playlist_clear; intro and static are those of the new position.
C11_NoFadeoutSequence ==
    [][ (LoadStepTaken /\ ~replaced) =>
          LET frag == playlist[Pos(cursor') + 1]
          IN  /\ PlaybackCalls(calls) = <<>>
              /\ PlaybackCalls(calls') =
                   IF frag.intro # None
                   THEN <<[op |-> "replace", arg |-> frag.intro[1], inf_loop |-> FALSE],
                          [op |-> "playlist_clear", arg |-> "", inf_loop |-> FALSE],
                          [op |-> "queue", arg |-> frag.static_, inf_loop |-> TRUE]>>
                   ELSE <<[op |-> "replace", arg |-> frag.static_, inf_loop |-> TRUE],
                          [op |-> "playlist_clear", arg |-> "", inf_loop |-> FALSE]>>
      ]_vars

\* a Next from fragment 0 (fadeout list, nothing selected) to fragment 1 (intro)
C11_Witness ==
    /\ con_pc = "recv" /\ cmd = Some("Next")
    /\ Pos(prev) = 0 /\ Pos(cursor) = 1
    /\ calls = Queried \o <<ReplaceCall("intro1.mp4", FALSE), ClearCall,
                             QueueCall("loop1.mp4", TRUE)>>

\* C12: a transition that reaches the loading step with an outro selected has
\* issued, as playback calls, exactly replace(video, false), playlist_clear,
\* video being an entry of the fadeout list of the fragment the cursor was on
\* at the dequeue; the loading step adds queue(intro, false) when the fragment
\* at the new position has an intro, then queue(static, true), and nothing else.
C12_FadeoutSequence ==
    [][ (LoadStepTaken /\ replaced) =>
          LET frag == playlist[Pos(cursor') + 1]
              outro == PlaybackCalls(calls)
          IN  /\ PrevFragment.fadeout # None
              /\ \E i \in 1..Len(PrevFragment.fadeout[1]) :
                    outro = <<[op |-> "replace",
                               arg |-> PrevFragment.fadeout[1][i].video,
                               inf_loop |-> FALSE],
                              [op |-> "playlist_clear", arg |-> "", inf_loop |-> FALSE]>>
              /\ PlaybackCalls(calls') =
                   outro
                   \o (IF frag.intro # None
                       THEN <<[op |-> "queue", arg |-> frag.intro[1], inf_loop |-> FALSE]>>
                       ELSE <<>>)
                   \o <<[op |-> "queue", arg |-> frag.static_, inf_loop |-> TRUE]>>
      ]_vars

\* a Next from fragment 0 (outro B selected) to fragment 1, which has an intro
\* and no fadeout list of its own
C12_Witness ==
    /\ con_pc = "recv" /\ cmd = Some("Next")
    /\ Pos(prev) = 0 /\ Pos(cursor) = 1
    /\ playlist[2].fadeout = None
    /\ calls = Queried \o <<ReplaceCall("B", FALSE), ClearCall,
                             QueueCall("intro1.mp4", FALSE),
                             QueueCall("loop1.mp4", TRUE)>>

-----------------------------------------------------------------------------
(* LineCodec: the wire protocol of the panel *)

MaxStream == 4      \* bytes in the stream the panel sends, and bytes in the
                    \* write buffer before an encode

NL == "\n"

\* the bytes decode tells apart; "x" is any byte that is no command and no '\n'
Byte == {"n", "p", "s", "x", NL}

ButtonState == {"StartOnly", "Both"}

\* usize is 64 bits wide; this modulus stands for 2^64: what matters is that
\* a wrapped index lies beyond the end of every line
UsizeModulus == 65536

\* every byte sequence of at most n bytes
Streams(n) == UNION {[1..k -> Byte] : k \in 0..n}

\* src.iter().position(|b| *b == b'\n'), counted from 0
NewlinePosition(src) ==
    LET hits == {i \in 1..Len(src) : src[i] = NL}
    IN  IF hits = {} THEN None
        ELSE Some((CHOOSE i \in hits : \A j \in hits : i <= j) - 1)

\* line.get(k), k counted from 0
Get(bytes, k) == IF k < Len(bytes) THEN Some(bytes[k + 1]) ELSE None

\* line.get(line.len() - 2) in a build where the subtraction wraps
CommandByte(ln) == Get(ln, (Len(ln) - 2) % UsizeModulus)

\* the match on the command byte
MatchCommand(b) ==
    CASE b = "n" -> Some("Next")
      [] b = "p" -> Some("Prev")
      [] b = "s" -> Some("Sleep")
      [] OTHER   -> None

\* the result of a decode call: panic (the call does not return), err (it
\* returns Err), item (the Option it returns) and rest (src afterwards)
Decoded(panic, err, item, rest) ==
    [panic |-> panic, err |-> err, item |-> item, rest |-> rest]

\* variant: a line without a command is put back into the buffer
DecodeKeepsNoise(src, checks) ==
    LET newline == NewlinePosition(src)
    IN  IF newline = None THEN Decoded(FALSE, FALSE, None, src)
        ELSE LET n == newline[1]
                 ln == SubSeq(src, 1, n + 1)
                 rest == SubSeq(src, n + 2, Len(src))
                 command == CommandByte(ln)
             IN  IF command # None /\ MatchCommand(command[1]) # None
                 THEN Decoded(FALSE, FALSE, MatchCommand(command[1]), rest)
                 ELSE Decoded(FALSE, FALSE, None, src)

\* LineCodec::decode; checks: the build panics on integer overflow
Decode(src, checks) ==
    LET newline == NewlinePosition(src)
    IN  IF newline = None THEN Decoded(FALSE, FALSE, None, src)
        ELSE LET n == newline[1]
                 ln == SubSeq(src, 1, n + 1)
                 rest == SubSeq(src, n + 2, Len(src))
                 command == CommandByte(ln)
             IN  IF Len(ln) < 2 /\ checks
                 THEN Decoded(TRUE, FALSE, None, rest)
                 ELSE IF command # None
                      THEN Decoded(FALSE, FALSE, MatchCommand(command[1]), rest)
                      ELSE Decoded(FALSE, FALSE, None, rest)

\* Decoder::decode_eof as LineCodec inherits it: bytes left in the buffer when
\* decode has nothing to return are an error
DecodeEof(src, checks) ==
    LET r == Decode(src, checks)
    IN  [r EXCEPT !.err = ~r.panic /\ r.item = None /\ r.rest # <<>>]

\* variant: the two signals get a status byte each
StatusByteDistinct(item) == IF item = "Both" THEN "b" ELSE "s"

\* the match in encode
StatusByte(item) ==
    CASE item = "Both"      -> "b"
      [] item = "StartOnly" -> "b"

\* Encoder<ButtonState>::encode on the buffer dst
Encode(item, dst) == Append(Append(dst, StatusByte(item)), NL)

-----------------------------------------------------------------------------
(* The framed reader over the port, polled as the dispatch loop polls it *)

\* the stream arrives one byte per read, or all of it in a single read
Delivery == {"bytewise", "whole"}

FramedNew ==
    [buffer |-> <<>>, fed |-> 0, is_readable |-> FALSE, eof |-> FALSE,
     has_errored |-> FALSE, out |-> <<>>, status |-> "run"]

\* how many bytes the next read returns
ReadSize(f, d) ==
    IF d = "bytewise" THEN (IF f.fed < Len(stream) THEN 1 ELSE 0)
    ELSE Len(stream) - f.fed

\* what the reader does with the result r of decode or decode_eof
AfterFrame(f, r) ==
    IF r.panic THEN [f EXCEPT !.buffer = r.rest, !.status = "panicked"]
    ELSE IF r.err
    THEN [f EXCEPT !.buffer = r.rest, !.has_errored = TRUE,
                    !.out = Append(f.out, "Err")]
    ELSE IF r.item # None
    THEN [f EXCEPT !.buffer = r.rest, !.out = Append(f.out, r.item[1])]
    ELSE [f EXCEPT !.buffer = r.rest, !.is_readable = FALSE]

\* what the reader does after a read of k bytes; a read that never returns
\* leaves the reader waiting for good
AfterRead(f, k) ==
    IF k > 0
    THEN [f EXCEPT !.buffer = f.buffer \o SubSeq(stream, f.fed + 1, f.fed + k),
                    !.fed = f.fed + k, !.eof = FALSE, !.is_readable = TRUE]
    ELSE IF ends = "silent" \/ f.eof THEN [f EXCEPT !.status = "idle"]
    ELSE [f EXCEPT !.eof = TRUE, !.is_readable = TRUE]

\* the decode call the reader makes in state f
FrameCall(f) ==
    IF f.eof THEN DecodeEof(f.buffer, overflow_checks)
    ELSE Decode(f.buffer, overflow_checks)

\* one round of the reader's poll loop
FramedStep(f, d) ==
    IF f.has_errored
    THEN [f EXCEPT !.has_errored = FALSE, !.is_readable = FALSE]
    ELSE IF f.is_readable THEN AfterFrame(f, FrameCall(f))
    ELSE AfterRead(f, ReadSize(f, d))

\* the Commands a reader has yielded
IsCommand(x) == x \in Command
Commands(f) == SelectSeq(f.out, IsCommand)

\* a one-fragment playlist for the specifications that are not about playback
OneFragment == <<Fragment(None, "loop0.mp4", None)>>

InitCodec ==
    /\ playlist = OneFragment
    /\ recording = FALSE
    /\ ProgramStart
    /\ NoWatcher
    /\ stream \in Streams(MaxStream)
    /\ overflow_checks \in BOOLEAN
    /\ ends \in {"silent", "eof"}
    /\ fr = [d \in Delivery |-> FramedNew]
    /\ lastDecode = None
    /\ wbuf = <<>>
    /\ lastEncode = None

progVars == <<playlist, cursor, chan, disp_pc, line, con_pc, cmd, prev, replaced,
              calls, telemetry, sent, processed, recording, closed, mutex,
              ioFault, watchVars>>

\* reader.lock().await.next() on the reader fed in way d, one round of its loop
CodecPoll(d) ==
    /\ fr[d].status = "run"
    /\ d = "whole" => fr["bytewise"].status # "run"
    /\ fr' = [fr EXCEPT ![d] = FramedStep(fr[d], d)]
    /\ lastDecode' = IF ~fr[d].has_errored /\ fr[d].is_readable
                     THEN Some([src |-> fr[d].buffer,
                                res |-> Decode(fr[d].buffer, overflow_checks)])
                     ELSE lastDecode
    /\ UNCHANGED <<stream, overflow_checks, ends, wbuf, lastEncode, progVars>>

PollBytewise == CodecPoll("bytewise")
PollWhole == CodecPoll("whole")

NextCodec ==
    \/ PollBytewise
    \/ PollWhole

SpecCodec == InitCodec /\ [][NextCodec]_vars

\* both readers have taken everything the stream will ever give them
Settled == \A d \in Delivery : fr[d].status # "run"

-----------------------------------------------------------------------------
(* The encoder, applied to every write buffer of up to MaxStream bytes *)

InitEncode ==
    /\ playlist = OneFragment
    /\ recording = FALSE
    /\ ProgramStart
    /\ NoWatcher
    /\ stream = <<>>
    /\ overflow_checks = FALSE
    /\ ends = "silent"
    /\ fr = <<>>
    /\ lastDecode = None
    /\ wbuf \in Streams(MaxStream)
    /\ lastEncode = None

\* send(item) on the framed port, first half: encode into the write buffer
CodecEncode ==
    /\ Len(wbuf) <= MaxStream
    /\ \E item \in ButtonState :
          /\ wbuf' = Encode(item, wbuf)
          /\ lastEncode' = Some([item |-> item, dst |-> wbuf])
    /\ UNCHANGED <<stream, overflow_checks, ends, fr, lastDecode, progVars>>

\* send(item) on the framed port, second half: the buffer goes out to the port
CodecFlush ==
    /\ wbuf # <<>>
    /\ wbuf' = <<>>
    /\ lastEncode' = None
    /\ UNCHANGED <<stream, overflow_checks, ends, fr, lastDecode, progVars>>

NextEncode ==
    \/ CodecEncode
    \/ CodecFlush

SpecEncode == InitEncode /\ [][NextEncode]_vars

-----------------------------------------------------------------------------
(* C13 *)

\* C13: for every finite byte stream, once both readers have taken all of it,
\* the Commands yielded when the stream arrives one byte per read are the
\* Commands yielded when it arrives in a single read.
C13_FragmentationIndependent ==
    Settled => Commands(fr["bytewise"]) = Commands(fr["whole"])

-----------------------------------------------------------------------------
(* C16 *)

\* C16: no decode call fails, whatever the bytes: no reader stops in a panic.
C16_DecodeNeverFails ==
    \A d \in Delivery : fr[d].status # "panicked"

-----------------------------------------------------------------------------
(* C17 *)

\* the first newline-terminated line of src has a content byte, and that byte
\* is none of 'n', 'p', 's'
EndsUnrecognized(src) ==
    /\ NewlinePosition(src) # None
    /\ NewlinePosition(src)[1] >= 1
    /\ src[NewlinePosition(src)[1]] \notin {"n", "p", "s"}

\* C17: a decode call on a buffer whose first line ends in a byte other than
\* 'n', 'p', 's' returns no Command and leaves in the buffer exactly the bytes
\* after that line's newline; a decode call on a buffer without a newline
\* returns no Command and leaves the buffer as it was.
C17_DecodeFrameEffect ==
    lastDecode # None =>
        LET src == lastDecode[1].src
            res == lastDecode[1].res
        IN  /\ EndsUnrecognized(src) =>
                  /\ ~res.panic /\ ~res.err /\ res.item = None
                  /\ res.rest = SubSeq(src, NewlinePosition(src)[1] + 2, Len(src))
            /\ NewlinePosition(src) = None =>
                  /\ ~res.panic /\ ~res.err /\ res.item = None
                  /\ res.rest = src

\* the whole stream "x\nn\n" is in the buffer: decode takes the line "x\n",
\* returns nothing and leaves "n\n"
C17_Witness ==
    /\ lastDecode # None
    /\ lastDecode[1].src = <<"x", NL, "n", NL>>
    /\ lastDecode[1].res.rest = <<"n", NL>>
    /\ fr["whole"].buffer = <<"n", NL>>
    /\ fr["whole"].out = <<>>

-----------------------------------------------------------------------------
(* C18 *)

\* C18: an encode call leaves the bytes that were in the buffer where they
\* were and appends exactly two bytes, a status byte and '\n'; the bytes
\* appended are the same for Both and for StartOnly.
C18_EncodeAppendsTwo ==
    lastEncode # None =>
        LET item == lastEncode[1].item
            dst == lastEncode[1].dst
        IN  /\ Len(wbuf) = Len(dst) + 2
            /\ SubSeq(wbuf, 1, Len(dst)) = dst
            /\ wbuf[Len(wbuf)] = NL
            /\ wbuf[Len(wbuf) - 1] \notin Byte
            /\ \A other \in ButtonState : Encode(other, dst) = wbuf

\* StartOnly encoded behind two bytes that were already in the buffer
C18_Witness ==
    /\ lastEncode = Some([item |-> "StartOnly", dst |-> <<"x", NL>>])
    /\ wbuf = <<"x", NL, "b", NL>>

-----------------------------------------------------------------------------
(* The three tasks together: dispatch loop, consumer and event watcher *)

MaxEvents == 2      \* filename changes the event watcher receives

\* ev_ctx.wait_event(60.) returns a change of "filename"; the signal is chosen
\* by whether the name contains "loop"
WatcherEvent ==
    /\ disp_pc # "exit"
    /\ w_pc = "event"
    /\ Len(notified) < MaxEvents
    /\ \E sig \in ButtonState :
          /\ w_sig' = Some(sig)
          /\ notified' = Append(notified, sig)
    /\ w_pc' = "lock"
    /\ UNCHANGED <<playlist, recording, ioFault, written, codecVars>>
    /\ UNCHANGED <<chan, closed, mutex, dispVars, conVars>>

\* writer.lock().await: the guard is taken, or the watcher waits for it
WatcherLock ==
    /\ disp_pc # "exit"
    /\ w_pc = "lock"
    /\ mutex' = MutexLock(mutex, "watcher")
    /\ w_pc' = IF MutexGranted(mutex', "watcher") THEN "send" ELSE "locking"
    /\ UNCHANGED <<playlist, recording, ioFault, w_sig, notified, written, codecVars>>
    /\ UNCHANGED <<chan, closed, dispVars, conVars>>

\* writer.lock().await returns once the mutex has been passed on
WatcherGranted ==
    /\ disp_pc # "exit"
    /\ w_pc = "locking"
    /\ MutexGranted(mutex, "watcher")
    /\ w_pc' = "send"
    /\ UNCHANGED <<playlist, recording, ioFault, w_sig, notified, written, codecVars>>
    /\ UNCHANGED <<chan, closed, mutex, dispVars, conVars>>

\* .send(signal).await returns Ok: the signal is on the wire, the guard is
\* dropped at the end of the statement
WatcherSend ==
    /\ disp_pc # "exit"
    /\ w_pc = "send"
    /\ written' = Append(written, Unwrap(w_sig))
    /\ w_sig' = None
    /\ mutex' = MutexUnlock(mutex)
    /\ w_pc' = "event"
    /\ UNCHANGED <<playlist, recording, ioFault, notified, codecVars>>
    /\ UNCHANGED <<chan, closed, dispVars, conVars>>

\* the task that has the serial connection in hand
InReadWait == disp_pc \in {"wait", "send_line", "send_sleep"}
InWrite == w_pc = "send"

InitSys ==
    /\ playlist = OneFragment
    /\ recording = FALSE
    /\ ProgramStart
    /\ w_pc = "event"
    /\ w_sig = None
    /\ notified = <<>>
    /\ written = <<>>
    /\ NoCodec

NextSys ==
    \/ ConsumerStart
    \/ ConsumerRecv
    \/ ConsumerFadeout
    \/ ConsumerMove
    \/ ConsumerLoad
    \/ DispatchLock
    \/ DispatchGranted
    \/ DispatchDecoded
    \/ DispatchTimeout
    \/ DispatchNoCommand
    \/ DispatchSendLine
    \/ DispatchSendSleep
    \/ WatcherEvent
    \/ WatcherLock
    \/ WatcherGranted
    \/ WatcherSend

SpecSys == InitSys /\ [][NextSys]_vars

\* fair scheduling: every task that can take its next step takes it; the read
\* wait ends with the timeout at the latest.  Nothing is assumed of the panel
\* (DispatchDecoded) or of the engine's events (WatcherEvent).
FairConsumer ==
    /\ WF_vars(ConsumerStart)
    /\ WF_vars(ConsumerRecv)
    /\ WF_vars(ConsumerFadeout)
    /\ WF_vars(ConsumerMove)
    /\ WF_vars(ConsumerLoad)

FairDispatch ==
    /\ WF_vars(DispatchLock)
    /\ WF_vars(DispatchGranted)
    /\ WF_vars(DispatchTimeout \/ DispatchDecoded \/ DispatchNoCommand)
    /\ WF_vars(DispatchSendLine)
    /\ WF_vars(DispatchSendSleep)

FairWatcher ==
    /\ WF_vars(WatcherLock)
    /\ WF_vars(WatcherGranted)
    /\ WF_vars(WatcherSend)

SpecSysLive == SpecSys /\ FairConsumer /\ FairDispatch /\ FairWatcher

-----------------------------------------------------------------------------
(* C19 *)

\* C19: the watcher is never inside its write while the dispatch loop is
\* inside its read wait (or the send that follows it under the same guard),
\* and whichever of the two is inside holds the mutex.
C19_MutualExclusion ==
    /\ ~(InReadWait /\ InWrite)
    /\ InReadWait => mutex.holder = Some("dispatch")
    /\ InWrite => mutex.holder = Some("watcher")

\* the dispatch loop is in its read wait and the watcher, with a signal to
\* write, is queued on the mutex
C19_Witness ==
    /\ disp_pc = "wait"
    /\ w_pc = "locking"
    /\ w_sig # None
    /\ mutex = [holder |-> Some("dispatch"), waitq |-> <<"watcher">>]

-----------------------------------------------------------------------------
(* C20 *)

\* the signals written are the first of the signals notified, in order
WrittenInOrder ==
    /\ Len(written) <= Len(notified)
    /\ \A k \in 1..Len(written) : written[k] = notified[k]

\* C20: under fair scheduling the signals written are always the first of the
\* signals notified, in order; the k-th notification received is eventually
\* the k-th signal written, with no Command from the panel needed; the
\* dispatch loop starts a new iteration again and again, and a Command put
\* into the channel is eventually taken out.
C20_SignalsWritten ==
    /\ []WrittenInOrder
    /\ \A k \in 1..MaxEvents : (Len(notified) >= k) ~> (Len(written) >= k)
    /\ []<>(disp_pc = "lock")
    /\ (chan # <<>>) ~> (chan = <<>>)

\* both notifications are written; the second write ended while the dispatch
\* loop was queued on the mutex, which has been passed to it
C20_Witness ==
    /\ Len(notified) = 2
    /\ written = notified
    /\ w_pc = "event"
    /\ disp_pc = "locking"
    /\ mutex.holder = Some("dispatch")

-----------------------------------------------------------------------------
(* Faults: serial reads and writes that fail, engine calls that fail *)

\* Ok(Some(Err(e))): the read of the port failed; error!(..) and the loop goes on
DispatchReadError ==
    /\ disp_pc = "wait"
    /\ ioFault' = TRUE
    /\ mutex' = MutexUnlock(mutex)
    /\ disp_pc' = "lock"
    /\ UNCHANGED <<chan, line, sent, closed>>
    /\ UNCHANGED <<conVars, playlist, recording, watchVars, codecVars>>

\* tx.send(..).await returns Err: error!(..) and return Err(anyhow!(e))
DispatchSendFails ==
    /\ disp_pc \in {"send_line", "send_sleep"}
    /\ TrySend(chan, closed) = "closed"
    /\ line' = None
    /\ mutex' = MutexUnlock(mutex)
    /\ disp_pc' = "exit"
    /\ UNCHANGED <<chan, sent, closed>>
    /\ UNCHANGED <<conVars, restVars>>

\* .send(signal).await returns Err: expect("to write to serail") panics, the
\* guard is dropped as the task unwinds and the watcher is gone
WatcherSendFails ==
    /\ disp_pc # "exit"
    /\ w_pc = "send"
    /\ ioFault' = TRUE
    /\ w_sig' = None
    /\ mutex' = MutexUnlock(mutex)
    /\ w_pc' = "panicked"
    /\ UNCHANGED <<playlist, recording, notified, written, codecVars>>
    /\ UNCHANGED <<chan, closed, dispVars, conVars>>

\* the call logs the consumer's current step can end with when no call fails
StepLogs ==
    LET frag == Unwrap(current(cursor, playlist))
        t == [replaced |-> replaced, calls |-> calls]
    IN  CASE con_pc = "start" -> {<<QueueCall(frag.static_, TRUE)>>}
          [] con_pc = "fadeout" ->
               {FadeoutStep(t, frag, loopReply, timeReply).calls :
                   loopReply \in LoopReplies, timeReply \in TimeReplies}
          [] con_pc = "load" -> {LoadStatic(LoadIntro(t, frag), frag).calls}
          [] OTHER -> {}

\* the call logs when one of the calls that lead from log `before` to log
\* `after` fails: the calls before the failing one were made
FailedLogs(before, after) ==
    {SubSeq(after, 1, k) : k \in Len(before)..(Len(after) - 1)}

\* an engine call fails: its expect(..) panics, the task unwinds and drops rx,
\* which closes the channel and discards what it holds
ConsumerFails ==
    /\ disp_pc # "exit"
    /\ \E after \in StepLogs : \E log \in FailedLogs(calls, after) : calls' = log
    /\ con_pc' = "panicked"
    /\ closed' = TRUE
    /\ chan' = <<>>
    /\ UNCHANGED <<cursor, cmd, prev, replaced, telemetry, processed>>
    /\ UNCHANGED <<dispVars, mutex, restVars>>

\* a playlist whose transitions make every kind of engine call: the queries,
\* an outro up to second 5, the intro replacing or queued, the static clip
FaultPlaylist ==
    <<Fragment(Some("intro0.mp4"), "loop0.mp4", Some(FadeoutList(<<Some(5)>>)))>>

InitFault ==
    /\ playlist = FaultPlaylist
    /\ recording = FALSE
    /\ ProgramStart
    /\ w_pc = "event"
    /\ w_sig = None
    /\ notified = <<>>
    /\ written = <<>>
    /\ NoCodec

NextFault ==
    \/ ConsumerStart
    \/ ConsumerRecv
    \/ ConsumerFadeout
    \/ ConsumerMove
    \/ ConsumerLoad
    \/ ConsumerFails
    \/ DispatchLock
    \/ DispatchGranted
    \/ DispatchDecoded
    \/ DispatchTimeout
    \/ DispatchNoCommand
    \/ DispatchReadError
    \/ DispatchSendLine
    \/ DispatchSendSleep
    \/ DispatchSendFails
    \/ WatcherEvent
    \/ WatcherLock
    \/ WatcherGranted
    \/ WatcherSend
    \/ WatcherSendFails

SpecFault == InitFault /\ [][NextFault]_vars

\* fair scheduling as in SpecSysLive, where a send or a write that can only
\* fail does fail, and where the read wait ends again and again with a Command
\* or the idle timeout (not for ever with a failed read or an ended stream)
FairFault ==
    /\ FairConsumer
    /\ WF_vars(DispatchLock)
    /\ WF_vars(DispatchGranted)
    /\ SF_vars(DispatchTimeout \/ DispatchDecoded)
    /\ WF_vars(DispatchSendLine)
    /\ WF_vars(DispatchSendSleep)
    /\ WF_vars(DispatchSendFails)
    /\ WF_vars(WatcherLock)
    /\ WF_vars(WatcherGranted)
    /\ WF_vars(WatcherSend \/ WatcherSendFails)

SpecFaultLive == SpecFault /\ FairFault

-----------------------------------------------------------------------------
(* C14 *)

\* C14: once a read or a write of the serial port has failed, the dispatch loop
\* passes no further Command to the channel.
C14_TransportFaultFatal ==
    [][ ioFault => Len(chan') <= Len(chan) ]_vars

-----------------------------------------------------------------------------
(* C15 *)

====
